---- MODULE Spec2Model ----
(***************************************************************************)
(* Model of simple_email_confirmation/models.py: the EmailAddress table,   *)
(* its manager (EmailAddressManager) and the user mixin                    *)
(* (SimpleEmailConfirmationUserMixin).                                     *)
(*                                                                         *)
(* Every action is one call of a public method, run to completion          *)
(* (sequential use).  `last' records the latest call, its arguments and    *)
(* its outcome; `sent' the signals it sent.  Tick lets time pass between   *)
(* two calls and is the only action that changes `now'.                    *)
(* SpecRace is the exception: there two callers run confirm and            *)
(* reset_email_confirmation at once, each call cut into the part before    *)
(* its save and the save itself (`procs').                                 *)
(*                                                                         *)
(* Keys.  get_random_string(n) with n >= 1 draws n characters from a       *)
(* 62-letter alphabet with a cryptographic generator; the model takes such *)
(* a draw to be a string never issued before (token nextKey).  For n <= 0  *)
(* it returns the empty string, which is the one token EmptyKey.           *)
(***************************************************************************)
EXTENDS Integers, Sequences, FiniteSets

\* ---------------------------------------------------------------- bounds
MaxTime == 1        \* the clock runs over 0..MaxTime
MaxKeys == 2        \* number of non-empty random keys that can be drawn
MaxPeriod == 2      \* SIMPLE_EMAIL_CONFIRMATION_PERIOD ranges over None, 1..MaxPeriod

\* ------------------------------------------------------------- constants
None == -1          \* Python None / SQL NULL (times and keys are >= 0)
MaxKeyLength == 40  \* max_length of EmailAddress.key
EmptyKey == 0       \* the key '' (get_random_string(length=0))

Users == {"u1", "u2"}
Emails == {"a", "b"}
NoUser == "nobody"      \* user=None
NoEmail == "none"       \* no e-mail (no account yet / no value returned)
KeyLengths == {None, 0, 1}          \* key_length arguments tried
Keys == 0..MaxKeys                  \* keys a caller may present
Periods == {None} \cup (1..MaxPeriod)

VARIABLES
    primary,    \* primary[u]: User.email of account u, NoEmail before the account exists
    store,      \* the EmailAddress table: a set of rows
    now,        \* timezone.now()
    period,     \* settings.SIMPLE_EMAIL_CONFIRMATION_PERIOD
    autoAdd,    \* settings.SIMPLE_EMAIL_CONFIRMATION_AUTO_ADD
    nextKey,    \* the next fresh random string
    last,       \* the latest call and its outcome
    sent,       \* the signals sent by that call, in order
    retired,    \* history, kept where an action is told to (hist): the keys
                \* that a reset_confirmation has replaced
    procs       \* the calls in flight where two callers run at once: for each
                \* caller its position, its arguments and the row it holds

vars == <<primary, store, now, period, autoAdd, nextKey, last, sent, retired, procs>>

Min(a, b) == IF a <= b THEN a ELSE b

\* ----------------------------------------------------------- EmailAddress
EmailAddress(user, email, key, set_at, confirmed_at) ==
    [user |-> user, email |-> email, key |-> key,
     set_at |-> set_at, confirmed_at |-> confirmed_at]

is_confirmed(address) == address.confirmed_at # None

\* key_expires_at that leaves the period out
key_expires_at_set_at(address, per) ==
    IF per # None THEN address.set_at ELSE None

key_expires_at(address, per) ==
    IF per # None THEN address.set_at + per ELSE None

\* is_key_expired that still accepts the key at the instant it expires
is_key_expired_strict(address, t, per) ==
    key_expires_at(address, per) # None /\ t > key_expires_at(address, per)

is_key_expired(address, t, per) ==
    key_expires_at(address, per) # None /\ t >= key_expires_at(address, per)

\* user.email_address_set: the rows of one user
email_address_set(st, user) == {r \in st : r.user = user}

\* queryset.filter(email=email) on the related manager
by_email(st, user, email) == {r \in email_address_set(st, user) : r.email = email}

\* ---------------------------------------------------------------- signals
UnconfirmedEmailCreated(user, email) ==
    [signal |-> "unconfirmed_email_created", user |-> user, email |-> email, old |-> NoEmail]
EmailConfirmed(user, email) ==
    [signal |-> "email_confirmed", user |-> user, email |-> email, old |-> NoEmail]
PrimaryEmailChanged(user, old_email, new_email) ==
    [signal |-> "primary_email_changed", user |-> user, email |-> new_email, old |-> old_email]

\* ------------------------------------------------------ the call record
Call(op, user, email, key, require_confirmed, save, result, ret_key, ret_email) ==
    [op |-> op, user |-> user, email |-> email, key |-> key,
     require_confirmed |-> require_confirmed,
     save |-> save, result |-> result, ret_key |-> ret_key, ret_email |-> ret_email]

NoCall == Call("none", NoUser, NoEmail, None, TRUE, TRUE, "ok", None, NoEmail)

\* ------------------------------------------------- two callers at once
Procs == {"p1", "p2"}

\* no row held (the local variable `address' is not bound yet)
NoAddress == [user |-> NoUser, email |-> NoEmail, key |-> None,
              set_at |-> None, confirmed_at |-> None]

\* a caller: pc is where it stands in its method, address the model
\* instance it has fetched, with the assignments made to it so far
Proc(pc, op, key, address, result) ==
    [pc |-> pc, op |-> op, key |-> key, address |-> address, result |-> result]

Idle == Proc("idle", "none", None, NoAddress, "none")

\* what a manager or mixin method hands back to the action that calls it
Outcome(st, result, key, email, signals, nk) ==
    [store |-> st, result |-> result, key |-> key, email |-> email,
     sent |-> signals, nextKey |-> nk]

\* ---------------------------------------------------- EmailAddressManager
\* generate_key: [key |-> the string, nextKey |-> the generator afterwards]
generate_key(key_length, nk) ==
    IF key_length = None
    THEN [key |-> nk, nextKey |-> nk + 1]
    ELSE IF Min(key_length, MaxKeyLength) <= 0
         THEN [key |-> EmptyKey, nextKey |-> nk]
         ELSE [key |-> nk, nextKey |-> nk + 1]

\* unique_together = (('user', 'email'),)
violates_unique_together(st, row) ==
    \E r \in st : r.user = row.user /\ r.email = row.email

\* key = CharField(unique=True)
violates_unique_key(st, row) ==
    \E r \in st : r.key = row.key

\* Manager.create: INSERT, refused with IntegrityError by either constraint
create(st, row) ==
    IF violates_unique_together(st, row) \/ violates_unique_key(st, row)
    THEN [store |-> st, result |-> "IntegrityError"]
    ELSE [store |-> st \cup {row}, result |-> "ok"]

create_confirmed(st, user, email, t, nk) ==
    LET g == generate_key(None, nk)
        c == create(st, EmailAddress(user, email, g.key, t, t))
    IN  IF c.result = "ok"
        THEN Outcome(c.store, "ok", g.key, email, <<>>, g.nextKey)
        ELSE Outcome(st, c.result, None, NoEmail, <<>>, g.nextKey)

\* create_unconfirmed that sends its signal before the INSERT is known to
\* have succeeded
create_unconfirmed_signal_first(st, user, email, key_length, t, nk) ==
    LET g == generate_key(key_length, nk)
        c == create(st, EmailAddress(user, email, g.key, t, None))
    IN  IF c.result = "ok"
        THEN Outcome(c.store, "ok", g.key, email,
                     <<UnconfirmedEmailCreated(user, email)>>, g.nextKey)
        ELSE Outcome(st, c.result, None, NoEmail,
                     <<UnconfirmedEmailCreated(user, email)>>, g.nextKey)

create_unconfirmed(st, user, email, key_length, t, nk) ==
    LET g == generate_key(key_length, nk)
        c == create(st, EmailAddress(user, email, g.key, t, None))
    IN  IF c.result = "ok"
        THEN Outcome(c.store, "ok", g.key, email,
                     <<UnconfirmedEmailCreated(user, email)>>, g.nextKey)
        ELSE Outcome(st, c.result, None, NoEmail, <<>>, g.nextKey)

\* confirm that tests is_confirmed before is_key_expired
confirm_confirmed_first(st, mgr, key, user, save, t, per, nk) ==
    LET all == IF mgr = NoUser THEN st ELSE email_address_set(st, mgr)
        queryset == IF user # NoUser THEN {r \in all : r.user = user} ELSE all
        found == {r \in queryset : r.key = key}
    IN  IF found = {}
        THEN Outcome(st, "DoesNotExist", None, NoEmail, <<>>, nk)
        ELSE LET address == CHOOSE r \in found : TRUE
             IN  IF is_confirmed(address)
                 THEN Outcome(st, "ok", address.key, address.email, <<>>, nk)
                 ELSE IF is_key_expired(address, t, per)
                      THEN Outcome(st, "EmailConfirmationExpired", None, NoEmail, <<>>, nk)
                      ELSE IF save
                           THEN Outcome((st \ {address}) \cup
                                            {[address EXCEPT !.confirmed_at = t]},
                                        "ok", address.key, address.email,
                                        <<EmailConfirmed(address.user, address.email)>>, nk)
                           ELSE Outcome(st, "ok", address.key, address.email, <<>>, nk)

\* confirm without the `if not address.is_confirmed' test
confirm_resend(st, mgr, key, user, save, t, per, nk) ==
    LET all == IF mgr = NoUser THEN st ELSE email_address_set(st, mgr)
        queryset == IF user # NoUser THEN {r \in all : r.user = user} ELSE all
        found == {r \in queryset : r.key = key}
    IN  IF found = {}
        THEN Outcome(st, "DoesNotExist", None, NoEmail, <<>>, nk)
        ELSE LET address == CHOOSE r \in found : TRUE
             IN  IF is_key_expired(address, t, per)
                 THEN Outcome(st, "EmailConfirmationExpired", None, NoEmail, <<>>, nk)
                 ELSE IF save
                      THEN Outcome((st \ {address}) \cup
                                       {[address EXCEPT !.confirmed_at = t]},
                                   "ok", address.key, address.email,
                                   <<EmailConfirmed(address.user, address.email)>>, nk)
                      ELSE Outcome(st, "ok", address.key, address.email, <<>>, nk)

\* confirm without the is_key_expired test
confirm_ignore_expiry(st, mgr, key, user, save, t, per, nk) ==
    LET all == IF mgr = NoUser THEN st ELSE email_address_set(st, mgr)
        queryset == IF user # NoUser THEN {r \in all : r.user = user} ELSE all
        found == {r \in queryset : r.key = key}
    IN  IF found = {}
        THEN Outcome(st, "DoesNotExist", None, NoEmail, <<>>, nk)
        ELSE LET address == CHOOSE r \in found : TRUE
             IN  IF ~is_confirmed(address) /\ save
                 THEN Outcome((st \ {address}) \cup
                                  {[address EXCEPT !.confirmed_at = t]},
                              "ok", address.key, address.email,
                              <<EmailConfirmed(address.user, address.email)>>, nk)
                 ELSE Outcome(st, "ok", address.key, address.email, <<>>, nk)

\* confirm that looks the key up in the whole table, whatever manager it is
\* called on and whatever its user argument
confirm_unscoped(st, mgr, key, user, save, t, per, nk) ==
    LET found == {r \in st : r.key = key}
    IN  IF found = {}
        THEN Outcome(st, "DoesNotExist", None, NoEmail, <<>>, nk)
        ELSE LET address == CHOOSE r \in found : TRUE
             IN  IF is_key_expired(address, t, per)
                 THEN Outcome(st, "EmailConfirmationExpired", None, NoEmail, <<>>, nk)
                 ELSE IF ~is_confirmed(address) /\ save
                      THEN Outcome((st \ {address}) \cup
                                       {[address EXCEPT !.confirmed_at = t]},
                                   "ok", address.key, address.email,
                                   <<EmailConfirmed(address.user, address.email)>>, nk)
                      ELSE Outcome(st, "ok", address.key, address.email, <<>>, nk)

\* confirm(key, user, save) on the manager `mgr': mgr = NoUser is
\* EmailAddress.objects, mgr = u is u.email_address_set
confirm(st, mgr, key, user, save, t, per, nk) ==
    LET all == IF mgr = NoUser THEN st ELSE email_address_set(st, mgr)
        queryset == IF user # NoUser THEN {r \in all : r.user = user} ELSE all
        found == {r \in queryset : r.key = key}
    IN  IF found = {}
        THEN Outcome(st, "DoesNotExist", None, NoEmail, <<>>, nk)
        ELSE LET address == CHOOSE r \in found : TRUE
             IN  IF is_key_expired(address, t, per)
                 THEN Outcome(st, "EmailConfirmationExpired", None, NoEmail, <<>>, nk)
                 ELSE IF ~is_confirmed(address) /\ save
                      THEN Outcome((st \ {address}) \cup
                                       {[address EXCEPT !.confirmed_at = t]},
                                   "ok", address.key, address.email,
                                   <<EmailConfirmed(address.user, address.email)>>, nk)
                      ELSE Outcome(st, "ok", address.key, address.email, <<>>, nk)

\* reset_confirmation that keeps the key
reset_confirmation_keep_key(st, address, t, nk) ==
    Outcome((st \ {address}) \cup
                {[address EXCEPT !.set_at = t, !.confirmed_at = None]},
            "ok", address.key, address.email, <<>>, nk)

\* EmailAddress.reset_confirmation
reset_confirmation(st, address, t, nk) ==
    LET g == generate_key(None, nk)
    IN  Outcome((st \ {address}) \cup
                    {[address EXCEPT !.key = g.key, !.set_at = t, !.confirmed_at = None]},
                "ok", g.key, address.email, <<>>, g.nextKey)

\* ----------------------------------------- SimpleEmailConfirmationUserMixin
get_confirmed_emails(st, user) ==
    {r.email : r \in {x \in email_address_set(st, user) : x.confirmed_at # None}}

get_unconfirmed_emails(st, user) ==
    {r.email : r \in {x \in email_address_set(st, user) : x.confirmed_at = None}}

\* the property User.is_confirmed
user_is_confirmed(prim, st, user) == prim[user] \in get_confirmed_emails(st, user)

\* the property User.confirmed_at: .get(email=primary) and its confirmed_at
user_confirmed_at(prim, st, user) ==
    LET found == by_email(st, user, prim[user])
    IN  IF found = {}
        THEN [result |-> "DoesNotExist", confirmed_at |-> None]
        ELSE [result |-> "ok", confirmed_at |-> (CHOOSE r \in found : TRUE).confirmed_at]

\* get_confirmation_key(email): email = NoEmail is the default email=None
get_confirmation_key(prim, st, user, email) ==
    LET e == IF email = NoEmail THEN prim[user] ELSE email
        found == by_email(st, user, e)
    IN  IF found = {}
        THEN [result |-> "DoesNotExist", key |-> None]
        ELSE [result |-> "ok", key |-> (CHOOSE r \in found : TRUE).key]

\* set_primary_email without the confirmed_emails test
set_primary_email_unchecked(prim, st, user, email, require_confirmed) ==
    LET old_email == prim[user]
    IN  IF email = old_email
        THEN [primary |-> prim, result |-> "ok", sent |-> <<>>]
        ELSE [primary |-> [prim EXCEPT ![user] = email], result |-> "ok",
              sent |-> <<PrimaryEmailChanged(user, old_email, email)>>]

\* set_primary_email that refuses only the e-mails in unconfirmed_emails
set_primary_email_known_only(prim, st, user, email, require_confirmed) ==
    LET old_email == prim[user]
    IN  IF email = old_email
        THEN [primary |-> prim, result |-> "ok", sent |-> <<>>]
        ELSE IF email \in get_unconfirmed_emails(st, user) /\ require_confirmed
             THEN [primary |-> prim, result |-> "EmailNotConfirmed", sent |-> <<>>]
             ELSE [primary |-> [prim EXCEPT ![user] = email], result |-> "ok",
                   sent |-> <<PrimaryEmailChanged(user, old_email, email)>>]

\* set_primary_email without the early return for the current primary
set_primary_email_always_signal(prim, st, user, email, require_confirmed) ==
    LET old_email == prim[user]
    IN  IF email \notin get_confirmed_emails(st, user) /\ require_confirmed
        THEN [primary |-> prim, result |-> "EmailNotConfirmed", sent |-> <<>>]
        ELSE [primary |-> [prim EXCEPT ![user] = email], result |-> "ok",
              sent |-> <<PrimaryEmailChanged(user, old_email, email)>>]

\* set_primary_email: [primary, result, sent]
set_primary_email(prim, st, user, email, require_confirmed) ==
    LET old_email == prim[user]
    IN  IF email = old_email
        THEN [primary |-> prim, result |-> "ok", sent |-> <<>>]
        ELSE IF email \notin get_confirmed_emails(st, user) /\ require_confirmed
             THEN [primary |-> prim, result |-> "EmailNotConfirmed", sent |-> <<>>]
             ELSE [primary |-> [prim EXCEPT ![user] = email], result |-> "ok",
                   sent |-> <<PrimaryEmailChanged(user, old_email, email)>>]

add_confirmed_email(st, user, email, t, nk) ==
    create_confirmed(st, user, email, t, nk)

add_unconfirmed_email(st, user, email, key_length, t, nk) ==
    create_unconfirmed(st, user, email, key_length, t, nk)

\* add_email_if_not_exists that hands out the key of an unconfirmed row
\* instead of resetting it
add_email_if_not_exists_keep_key(st, user, email, t, nk) ==
    LET found == by_email(st, user, email)
    IN  IF found = {}
        THEN add_unconfirmed_email(st, user, email, None, t, nk)
        ELSE LET address == CHOOSE r \in found : TRUE
             IN  IF ~is_confirmed(address)
                 THEN Outcome(st, "ok", address.key, address.email, <<>>, nk)
                 ELSE Outcome(st, "ok", None, NoEmail, <<>>, nk)

add_email_if_not_exists(st, user, email, t, nk) ==
    LET found == by_email(st, user, email)
    IN  IF found = {}
        THEN add_unconfirmed_email(st, user, email, None, t, nk)
        ELSE LET address == CHOOSE r \in found : TRUE
             IN  IF ~is_confirmed(address)
                 THEN reset_confirmation(st, address, t, nk)
                 ELSE Outcome(st, "ok", None, NoEmail, <<>>, nk)

reset_email_confirmation(st, user, email, t, nk) ==
    LET found == by_email(st, user, email)
    IN  IF found = {}
        THEN Outcome(st, "DoesNotExist", None, NoEmail, <<>>, nk)
        ELSE reset_confirmation(st, CHOOSE r \in found : TRUE, t, nk)

\* remove_email without the EmailIsPrimary test
remove_email_unprotected(prim, st, user, email, nk) ==
    LET found == by_email(st, user, email)
    IN  IF found = {}
        THEN Outcome(st, "DoesNotExist", None, NoEmail, <<>>, nk)
        ELSE Outcome(st \ {CHOOSE r \in found : TRUE}, "ok", None, NoEmail, <<>>, nk)

remove_email(prim, st, user, email, nk) ==
    IF email = prim[user]
    THEN Outcome(st, "EmailIsPrimary", None, NoEmail, <<>>, nk)
    ELSE LET found == by_email(st, user, email)
         IN  IF found = {}
             THEN Outcome(st, "DoesNotExist", None, NoEmail, <<>>, nk)
             ELSE Outcome(st \ {CHOOSE r \in found : TRUE}, "ok", None, NoEmail, <<>>, nk)

\* ---------------------------------------------------------------- auto_add
\* auto_add that does not look at kwargs['created']
auto_add_every_save(st, enabled, created, user, email, t, nk) ==
    IF enabled
    THEN add_unconfirmed_email(st, user, email, None, t, nk)
    ELSE Outcome(st, "ok", None, NoEmail, <<>>, nk)

\* the post_save receiver, for a save of the user model (any other sender
\* is ignored): `enabled' is SIMPLE_EMAIL_CONFIRMATION_AUTO_ADD, which
\* decides whether the receiver is connected at all, `created' is
\* kwargs['created'], `email' is user.get_primary_email()
auto_add(st, enabled, created, user, email, t, nk) ==
    IF enabled /\ created
    THEN add_unconfirmed_email(st, user, email, None, t, nk)
    ELSE Outcome(st, "ok", None, NoEmail, <<>>, nk)

\* ------------------------------------------------------------------ state
Init ==
    /\ primary = [u \in Users |-> NoEmail]
    /\ store = {}
    /\ now = 0
    /\ period \in Periods
    /\ autoAdd \in BOOLEAN
    /\ nextKey = 1
    /\ last = NoCall
    /\ sent = <<>>
    /\ retired = {}
    /\ procs = [p \in Procs |-> Idle]

Exists(u) == primary[u] # NoEmail

\* the keys of the rows of `before' that hold another key in `after'
replaced_keys(before, after) ==
    {r.key : r \in {x \in before : \E y \in after :
                        y.user = x.user /\ y.email = x.email /\ y.key # x.key}}

\* the effect of a manager/mixin method that leaves User.email alone
Effect(o, call, hist) ==
    /\ o.nextKey <= MaxKeys + 1
    /\ store' = o.store
    /\ nextKey' = o.nextKey
    /\ sent' = o.sent
    /\ last' = call
    /\ retired' = IF hist THEN retired \cup replaced_keys(store, o.store) ELSE retired
    /\ UNCHANGED <<primary, now, period, autoAdd, procs>>

\* wall-clock time passes between two calls
Tick ==
    /\ now < MaxTime
    /\ now' = now + 1
    /\ UNCHANGED <<primary, store, period, autoAdd, nextKey, last, sent, retired, procs>>

\* a new account is saved: post_save(created=True) runs auto_add
CreateUser(u, e) ==
    /\ ~Exists(u)
    /\ LET o == auto_add(store, autoAdd, TRUE, u, e, now, nextKey)
       IN  /\ o.nextKey <= MaxKeys + 1
           /\ primary' = [primary EXCEPT ![u] = e]
           /\ store' = o.store
           /\ nextKey' = o.nextKey
           /\ sent' = o.sent
           /\ last' = Call("create_user", u, e, None, TRUE, TRUE,
                           o.result, o.key, NoEmail)
    /\ UNCHANGED <<now, period, autoAdd, retired, procs>>

\* set_primary_email; where it assigns the field, self.save(update_fields=
\* [field]) sends post_save(created=False) to auto_add before
\* primary_email_changed is sent
SetPrimaryEmail(u, e, rc) ==
    /\ Exists(u)
    /\ LET o == set_primary_email(primary, store, u, e, rc)
           h == IF o.primary # primary
                THEN auto_add(store, autoAdd, FALSE, u, e, now, nextKey)
                ELSE Outcome(store, "ok", None, NoEmail, <<>>, nextKey)
       IN  /\ h.nextKey <= MaxKeys + 1
           /\ primary' = o.primary
           /\ store' = h.store
           /\ nextKey' = h.nextKey
           /\ sent' = IF h.result = "ok" THEN h.sent \o o.sent ELSE h.sent
           /\ last' = Call("set_primary_email", u, e, None, rc, TRUE,
                           IF h.result = "ok" THEN o.result ELSE h.result,
                           None, NoEmail)
    /\ UNCHANGED <<now, period, autoAdd, retired, procs>>

\* the keys a caller presents: every string drawn so far, and the string
\* nextKey, not yet drawn, for all the others
Presentable(k) == k <= nextKey

\* user.confirm_email(key, save): confirm on the related manager
ConfirmEmail(u, k, save, hist) ==
    /\ Exists(u)
    /\ Presentable(k)
    /\ LET o == confirm(store, u, k, NoUser, save, now, period, nextKey)
       IN  Effect(o, Call("confirm_email", u, NoEmail, k, TRUE, save,
                          o.result, None, o.email), hist)

\* EmailAddress.objects.confirm(key, user, save)
Confirm(k, user, save, hist) ==
    /\ Presentable(k)
    /\ LET o == confirm(store, NoUser, k, user, save, now, period, nextKey)
       IN  Effect(o, Call("confirm", user, NoEmail, k, TRUE, save,
                          o.result, None, o.email), hist)

AddConfirmedEmail(u, e, hist) ==
    /\ Exists(u)
    /\ LET o == add_confirmed_email(store, u, e, now, nextKey)
       IN  Effect(o, Call("add_confirmed_email", u, e, None, TRUE, TRUE,
                          o.result, o.key, NoEmail), hist)

AddUnconfirmedEmail(u, e, key_length, hist) ==
    /\ Exists(u)
    /\ LET o == add_unconfirmed_email(store, u, e, key_length, now, nextKey)
       IN  Effect(o, Call("add_unconfirmed_email", u, e, None, TRUE, TRUE,
                          o.result, o.key, NoEmail), hist)

AddEmailIfNotExists(u, e, hist) ==
    /\ Exists(u)
    /\ LET o == add_email_if_not_exists(store, u, e, now, nextKey)
       IN  Effect(o, Call("add_email_if_not_exists", u, e, None, TRUE, TRUE,
                          o.result, o.key, NoEmail), hist)

ResetEmailConfirmation(u, e, hist) ==
    /\ Exists(u)
    /\ LET o == reset_email_confirmation(store, u, e, now, nextKey)
       IN  Effect(o, Call("reset_email_confirmation", u, e, None, TRUE, TRUE,
                          o.result, o.key, NoEmail), hist)

RemoveEmail(u, e, hist) ==
    /\ Exists(u)
    /\ LET o == remove_email(primary, store, u, e, nextKey)
       IN  Effect(o, Call("remove_email", u, e, None, TRUE, TRUE,
                          o.result, None, NoEmail), hist)

\* one call on the mixin of an account of US, about an e-mail of ES, with a
\* save argument of SV
Facade(US, ES, SV, hist) ==
    \/ Tick
    \/ \E u \in US, e \in ES : CreateUser(u, e)
    \/ \E u \in US, e \in ES, rc \in BOOLEAN : SetPrimaryEmail(u, e, rc)
    \/ \E u \in US, k \in Keys, save \in SV : ConfirmEmail(u, k, save, hist)
    \/ \E u \in US, e \in ES : AddConfirmedEmail(u, e, hist)
    \/ \E u \in US, e \in ES, kl \in KeyLengths : AddUnconfirmedEmail(u, e, kl, hist)
    \/ \E u \in US, e \in ES : AddEmailIfNotExists(u, e, hist)
    \/ \E u \in US, e \in ES : ResetEmailConfirmation(u, e, hist)
    \/ \E u \in US, e \in ES : RemoveEmail(u, e, hist)

\* one call of EmailAddress.objects.confirm, with a user argument of SC and
\* a save argument of SV
Manager(SC, SV, hist) ==
    \E k \in Keys, user \in SC, save \in SV : Confirm(k, user, save, hist)

\* one account with two addresses, used through the mixin
Next == Facade({"u1"}, Emails, BOOLEAN, FALSE)

Spec == Init /\ [][Next]_vars

\* the same, with the history of the replaced keys
NextHistory == Facade({"u1"}, Emails, BOOLEAN, TRUE)

SpecHistory == Init /\ [][NextHistory]_vars

\* two accounts sharing one address, used through the mixin and the manager,
\* every confirm saving (save=True, the default)
NextTwo ==
    \/ Facade(Users, {"a"}, {TRUE}, FALSE)
    \/ Manager(Users \cup {NoUser}, {TRUE}, FALSE)

SpecTwo == Init /\ [][NextTwo]_vars

\* ------------------------------------------ two calls running at once
\* Each call is cut where it talks to the database: a read step (the
\* .get() and the tests and assignments made on the fetched instance) and a
\* write step (save(update_fields=...) and the signal).  No method takes a
\* lock or opens a transaction, so the steps of two calls interleave freely.

\* account u1 has been created with AUTO_ADD on: it holds one unconfirmed
\* row for its primary e-mail "a"; no call is in flight, nothing is sent yet
RaceInit ==
    /\ primary = [u \in Users |-> IF u = "u1" THEN "a" ELSE NoEmail]
    /\ store = {EmailAddress("u1", "a", 1, 0, None)}
    /\ now = 0
    /\ period \in Periods
    /\ autoAdd = TRUE
    /\ nextKey = 2
    /\ last = NoCall
    /\ sent = <<>>
    /\ retired = {}
    /\ procs = [p \in Procs |-> Idle]

\* Model.save(update_fields=fields) of the instance `address': UPDATE of
\* those columns in the row with the primary key of `address'
save(st, address, fields) ==
    {IF r.user = address.user /\ r.email = address.email
     THEN [f \in DOMAIN r |-> IF f \in fields THEN address[f] ELSE r[f]]
     ELSE r : r \in st}

\* confirm(key), up to the save: .get(key=key), the is_key_expired and
\* is_confirmed tests, and address.confirmed_at = timezone.now()
ConfirmRead(p, k) ==
    /\ procs[p].pc = "idle"
    /\ Presentable(k)
    /\ LET found == {r \in store : r.key = k}
           address == CHOOSE r \in found : TRUE
       IN  procs' = [procs EXCEPT ![p] =
               IF found = {}
               THEN Proc("done", "confirm", k, NoAddress, "DoesNotExist")
               ELSE IF is_key_expired(address, now, period)
                    THEN Proc("done", "confirm", k, NoAddress,
                              "EmailConfirmationExpired")
                    ELSE IF is_confirmed(address)
                         THEN Proc("done", "confirm", k, address, "ok")
                         ELSE Proc("confirm_write", "confirm", k,
                                   [address EXCEPT !.confirmed_at = now], "none")]
    /\ UNCHANGED <<primary, store, now, period, autoAdd, nextKey, last, sent, retired>>

\* confirm(key), from the save on: address.save(update_fields=
\* ['confirmed_at']) and email_confirmed.send
ConfirmWrite(p) ==
    /\ procs[p].pc = "confirm_write"
    /\ store' = save(store, procs[p].address, {"confirmed_at"})
    /\ sent' = Append(sent, EmailConfirmed(procs[p].address.user,
                                           procs[p].address.email))
    /\ procs' = [procs EXCEPT ![p].pc = "done", ![p].result = "ok"]
    /\ UNCHANGED <<primary, now, period, autoAdd, nextKey, last, retired>>

\* reset_email_confirmation(email), up to the save: .get(email=email) and
\* the three assignments of reset_confirmation
ResetRead(p, u, e) ==
    /\ procs[p].pc = "idle"
    /\ Exists(u)
    /\ LET found == by_email(store, u, e)
           address == CHOOSE r \in found : TRUE
           g == generate_key(None, nextKey)
       IN  IF found = {}
           THEN /\ procs' = [procs EXCEPT ![p] =
                        Proc("done", "reset_email_confirmation", None,
                             NoAddress, "DoesNotExist")]
                /\ UNCHANGED nextKey
           ELSE /\ g.nextKey <= MaxKeys + 1
                /\ nextKey' = g.nextKey
                /\ procs' = [procs EXCEPT ![p] =
                        Proc("reset_write", "reset_email_confirmation", None,
                             [address EXCEPT !.key = g.key, !.set_at = now,
                                             !.confirmed_at = None], "none")]
    /\ UNCHANGED <<primary, store, now, period, autoAdd, last, sent, retired>>

\* reset_confirmation, the save: self.save(update_fields=['key', 'set_at',
\* 'confirmed_at'])
ResetWrite(p) ==
    /\ procs[p].pc = "reset_write"
    /\ store' = save(store, procs[p].address, {"key", "set_at", "confirmed_at"})
    /\ procs' = [procs EXCEPT ![p].pc = "done", ![p].result = "ok"]
    /\ UNCHANGED <<primary, now, period, autoAdd, nextKey, last, sent, retired>>

NextRace ==
    \/ Tick
    \/ \E p \in Procs, k \in Keys : ConfirmRead(p, k)
    \/ \E p \in Procs : ConfirmWrite(p)
    \/ \E p \in Procs, e \in Emails : ResetRead(p, "u1", e)
    \/ \E p \in Procs : ResetWrite(p)

SpecRace == RaceInit /\ [][NextRace]_vars

TypeOK ==
    /\ primary \in [Users -> Emails \cup {NoEmail}]
    /\ \A p \in Procs :
          /\ procs[p].pc \in {"idle", "confirm_write", "reset_write", "done"}
          /\ procs[p].key \in Keys \cup {None}
    /\ now \in 0..MaxTime
    /\ nextKey \in 1..(MaxKeys + 1)
    /\ retired \subseteq Keys
    /\ \A r \in store : /\ r.user \in Users /\ r.email \in Emails
                        /\ r.key \in Keys
                        /\ r.set_at \in 0..MaxTime
                        /\ r.confirmed_at \in {None} \cup (0..MaxTime)

\* ------------------------------------------------------------ properties
\* the step is a call of one of the methods `ops' (Tick alone moves the clock)
OpStep(ops) == now' = now /\ last'.op \in ops

ConfirmOps == {"confirm", "confirm_email"}

\* the rows a confirm call can see: those of the account it is called on
\* (confirm_email) or of its user argument (confirm), all rows without one
Visible(st, call) ==
    IF call.user = NoUser THEN st ELSE email_address_set(st, call.user)

\* how often the signal ev occurs in the sequence q
Count(q, ev) == Cardinality({i \in DOMAIN q : q[i] = ev})

\* C1 (as stated): once an account's primary e-mail is confirmed it stays
\* confirmed over every step that is not a set_primary_email with
\* require_confirmed = False.
C1_Original ==
    [][\A u \in Users :
          (/\ Exists(u)
           /\ user_is_confirmed(primary, store, u)
           /\ ~(OpStep({"set_primary_email"}) /\ last'.user = u
                 /\ ~last'.require_confirmed))
          => user_is_confirmed(primary', store', u)]_vars

\* C1 (amended): once an account's primary e-mail is confirmed it stays
\* confirmed over every step that is neither a set_primary_email with
\* require_confirmed = False nor a reset_email_confirmation of the primary
\* e-mail itself.
C1_PrimaryStaysConfirmed ==
    [][\A u \in Users :
          (/\ Exists(u)
           /\ user_is_confirmed(primary, store, u)
           /\ ~(OpStep({"set_primary_email"}) /\ last'.user = u
                 /\ ~last'.require_confirmed)
           /\ ~(OpStep({"reset_email_confirmation"}) /\ last'.user = u
                 /\ last'.email = primary[u]))
          => user_is_confirmed(primary', store', u)]_vars

\* a set_primary_email(require_confirmed=True) has just moved the primary
\* e-mail, and the new primary is confirmed
C1_Witness ==
    /\ last.op = "set_primary_email" /\ last.require_confirmed /\ last.result = "ok"
    /\ Len(sent) = 1 /\ sent[1].signal = "primary_email_changed"
    /\ primary[last.user] = last.email
    /\ user_is_confirmed(primary, store, last.user)

\* C2: a confirm that finds a row whose key is expired (confirmed or not)
\* raises EmailConfirmationExpired, changes no row and sends no signal.
C2_ExpiredKeyRejected ==
    [][(/\ OpStep(ConfirmOps)
        /\ \E r \in Visible(store, last') :
              r.key = last'.key /\ period # None /\ now >= r.set_at + period)
       => (/\ last'.result = "EmailConfirmationExpired"
           /\ store' = store
           /\ sent' = <<>>)]_vars

\* a confirm was refused as expired on a row that is already confirmed
C2_Witness ==
    /\ last.op \in ConfirmOps /\ last.result = "EmailConfirmationExpired"
    /\ \E r \in Visible(store, last) :
          /\ r.key = last.key /\ r.confirmed_at # None
          /\ period # None /\ now >= r.set_at + period

\* the row of (u, e) goes from unconfirmed to confirmed in the step
BecomesConfirmed(u, e) ==
    \E r \in store, r2 \in store' :
        /\ r.user = u /\ r.email = e /\ r2.user = u /\ r2.email = e
        /\ r.confirmed_at = None /\ r2.confirmed_at # None

\* C3: every step sends EmailConfirmed(u, e) once if the step is a confirm
\* that takes the row of (u, e) from unconfirmed to confirmed and not at all
\* otherwise; a saving confirm of the unexpired key of a confirmed row
\* returns that row, changes nothing and sends nothing.
C3_ConfirmedOncePerTransition ==
    [][/\ \A u \in Users, e \in Emails :
            now' = now =>
               /\ Count(sent', EmailConfirmed(u, e)) =
                      IF BecomesConfirmed(u, e) THEN 1 ELSE 0
               /\ BecomesConfirmed(u, e) => last'.op \in ConfirmOps
       /\ \A r \in Visible(store, last') :
            (/\ OpStep(ConfirmOps) /\ last'.save /\ r.key = last'.key
             /\ r.confirmed_at # None /\ ~is_key_expired(r, now, period))
            => (/\ last'.result = "ok" /\ last'.ret_email = r.email
                /\ store' = store /\ sent' = <<>>)]_vars

\* a second confirm of a key that an earlier confirm had used: the row was
\* confirmed after its key was set, and the call sent nothing
C3_Witness ==
    /\ last.op \in ConfirmOps /\ last.save /\ last.result = "ok" /\ sent = <<>>
    /\ \E r \in Visible(store, last) :
          r.key = last.key /\ r.confirmed_at # None /\ r.confirmed_at > r.set_at

\* C4 (as stated): a reset leaves the row unconfirmed under a key that was
\* never replaced before, and a confirm that presents a key which a reset
\* has replaced raises DoesNotExist, at any later time.
C4_Original ==
    /\ (last.op = "reset_email_confirmation" /\ last.result = "ok")
       => \E r \in by_email(store, last.user, last.email) :
             r.confirmed_at = None /\ r.key = last.ret_key /\ r.key \notin retired
    /\ (last.op \in ConfirmOps /\ last.key \in retired)
       => last.result = "DoesNotExist"

\* C5 (as stated): set_primary_email(email, require_confirmed=True) with an
\* e-mail outside the account's confirmed e-mails raises EmailNotConfirmed,
\* keeps the primary e-mail and sends no signal.
C5_Original ==
    [][(/\ OpStep({"set_primary_email"}) /\ last'.require_confirmed
        /\ last'.email \notin get_confirmed_emails(store, last'.user))
       => (/\ last'.result = "EmailNotConfirmed"
           /\ primary' = primary
           /\ sent' = <<>>)]_vars

\* C5 (amended): such a call keeps the primary e-mail and sends no signal;
\* it raises EmailNotConfirmed when the e-mail differs from the current
\* primary and returns normally when it is the current primary.
C5_UnconfirmedNotPrimary ==
    [][(/\ OpStep({"set_primary_email"}) /\ last'.require_confirmed
        /\ last'.email \notin get_confirmed_emails(store, last'.user))
       => (/\ last'.result = IF last'.email = primary[last'.user]
                             THEN "ok" ELSE "EmailNotConfirmed"
           /\ primary' = primary
           /\ sent' = <<>>)]_vars

\* set_primary_email(require_confirmed=True) was refused for an e-mail that
\* the account holds unconfirmed
C5_Witness ==
    /\ last.op = "set_primary_email" /\ last.require_confirmed
    /\ last.result = "EmailNotConfirmed"
    /\ last.email \in get_unconfirmed_emails(store, last.user)
    /\ primary[last.user] # last.email

\* C6: remove_email of the primary e-mail raises EmailIsPrimary and keeps
\* every row; of another e-mail it raises DoesNotExist when the account has
\* no row for it and otherwise deletes that one row and nothing else; it
\* never sends a signal nor changes the primary e-mail.
C6_RemoveEmail ==
    [][OpStep({"remove_email"}) =>
          LET u == last'.user
              e == last'.email
              rows == by_email(store, u, e)
          IN  /\ primary' = primary
              /\ sent' = <<>>
              /\ e = primary[u]
                 => last'.result = "EmailIsPrimary" /\ store' = store
              /\ (e # primary[u] /\ rows = {})
                 => last'.result = "DoesNotExist" /\ store' = store
              /\ (e # primary[u] /\ rows # {})
                 => /\ last'.result = "ok"
                    /\ Cardinality(rows) = 1
                    /\ store' = store \ rows]_vars

\* remove_email was refused for the primary e-mail, whose row is there
C6_Witness ==
    /\ last.op = "remove_email" /\ last.result = "EmailIsPrimary"
    /\ last.email = primary[last.user]
    /\ by_email(store, last.user, last.email) # {}

\* the key of row r can still be confirmed at the current time
Unexpired(r) == period = None \/ now < r.set_at + period

\* C7: a confirmed_at that is set changes in a step only if the step is a
\* reset_email_confirmation of that row, which sets it to NULL, gives the
\* row another key and sets set_at to the current time; and
\* add_email_if_not_exists leaves every confirmed row as it is.
C7_ConfirmedAtMonotonic ==
    [][/\ \A r \in store, r2 \in store' :
            (/\ r2.user = r.user /\ r2.email = r.email
             /\ r.confirmed_at # None /\ r2.confirmed_at # r.confirmed_at)
            => (/\ OpStep({"reset_email_confirmation"})
                /\ last'.user = r.user /\ last'.email = r.email
                /\ r2.confirmed_at = None
                /\ r2.key # r.key /\ r2.key = last'.ret_key
                /\ r2.set_at = now)
       /\ OpStep({"add_email_if_not_exists"})
            => \A r \in store : r.confirmed_at # None => r \in store']_vars

\* a confirm succeeded on a row that was confirmed at an earlier time, and
\* the row still shows the earlier time
C7_Witness ==
    /\ last.op \in ConfirmOps /\ last.save /\ last.result = "ok"
    /\ \E r \in Visible(store, last) :
          r.key = last.key /\ r.confirmed_at # None /\ r.confirmed_at < now

\* C8 (as stated): no two rows share (user, e-mail); add_confirmed_email and
\* add_unconfirmed_email raise IntegrityError for a pair that exists, keep
\* the rows and send nothing; and for a pair that the account lacks while
\* another account holds the e-mail they succeed.
C8_Original ==
    [][/\ \A r1, r2 \in store' :
            (r1.user = r2.user /\ r1.email = r2.email) => r1 = r2
       /\ OpStep({"add_confirmed_email", "add_unconfirmed_email"}) =>
            LET u == last'.user
                e == last'.email
            IN  /\ by_email(store, u, e) # {}
                   => (/\ last'.result = "IntegrityError"
                       /\ store' = store /\ sent' = <<>>)
                /\ (/\ by_email(store, u, e) = {}
                    /\ \E r \in store : r.email = e /\ r.user # u)
                   => (/\ last'.result = "ok"
                       /\ \E r \in by_email(store', u, e) : r.key = last'.ret_key)]_vars

\* the confirm of the step presents the key that the add_unconfirmed_email
\* before it returned, saves, and looks among the rows of that account
ConfirmsCreatedKey ==
    /\ last.op = "add_unconfirmed_email" /\ last.result = "ok"
    /\ OpStep(ConfirmOps) /\ last'.save
    /\ last'.key = last.ret_key
    /\ last'.user \in {NoUser, last.user}

\* the confirm of the step succeeds for the row that last created
ConfirmSucceeds ==
    /\ last'.result = "ok" /\ last'.ret_email = last.email
    /\ sent' = <<EmailConfirmed(last.user, last.email)>>
    /\ \E r \in by_email(store', last.user, last.email) : r.confirmed_at = now

\* C9 (as stated): the confirm that follows a successful
\* add_unconfirmed_email with no other call in between, with the key it
\* returned, confirms the row and sends exactly one EmailConfirmed.
C9_Original ==
    [][ConfirmsCreatedKey => ConfirmSucceeds]_vars

\* C9 (amended): it does so when the key has not expired by the time of the
\* confirm.
C9_CreateThenConfirm ==
    [][(/\ ConfirmsCreatedKey
        /\ \A r \in by_email(store, last.user, last.email) : Unexpired(r))
       => ConfirmSucceeds]_vars

\* with a period configured, a confirm has just confirmed a row and sent
\* its one EmailConfirmed
C9_Witness ==
    /\ last.op \in ConfirmOps /\ last.save /\ last.result = "ok"
    /\ period # None
    /\ \E r \in Visible(store, last) :
          /\ r.key = last.key /\ r.confirmed_at = now
          /\ sent = <<EmailConfirmed(r.user, r.email)>>

C11_ConfirmScopedToUser ==
    [][\A r \in store :
          (/\ OpStep(ConfirmOps)
           /\ last'.user # NoUser
           /\ r.key = last'.key /\ r.user # last'.user)
          => (/\ last'.result = "DoesNotExist"
              /\ store' = store
              /\ sent' = <<>>)]_vars

\* account A has presented the unexpired key of an unconfirmed row of
\* account B through confirm_email and was told DoesNotExist
C11_Witness ==
    /\ last.op = "confirm_email" /\ last.result = "DoesNotExist"
    /\ \E r \in store :
          /\ r.key = last.key /\ r.user # last.user /\ r.confirmed_at = None
          /\ ~is_key_expired(r, now, period)

\* C12: a confirm that finds a row is refused as expired exactly when a
\* period is configured and now >= set_at + period (never without a period,
\* not before set_at + period, always from set_at + period on); a reset
\* sets set_at to the time of the reset, so the period runs from there.
C12_KeyExpiration ==
    [][/\ \A r \in Visible(store, last') :
            (OpStep(ConfirmOps) /\ r.key = last'.key)
            => ((last'.result = "EmailConfirmationExpired")
                    <=> (period # None /\ now >= r.set_at + period))
       /\ (/\ OpStep({"reset_email_confirmation", "add_email_if_not_exists"})
           /\ last'.result = "ok" /\ last'.ret_key # None)
          => \E r \in by_email(store', last'.user, last'.email) :
                r.key = last'.ret_key /\ r.set_at = now]_vars

\* with a period configured, a confirm was accepted after time had passed
\* since the key was set, but before set_at + period
C12_Witness ==
    /\ last.op \in ConfirmOps /\ last.result = "ok" /\ period # None
    /\ \E r \in Visible(store, last) :
          r.key = last.key /\ r.set_at < now /\ now < r.set_at + period

\* the positions of the primary_email_changed signals of account u in q
PrimaryChanges(q, u) ==
    {i \in DOMAIN q : q[i].signal = "primary_email_changed" /\ q[i].user = u}

\* C13: a call that changes the primary e-mail of an existing account from
\* old to new sends PrimaryEmailChanged(old, new) once and no other
\* primary_email_changed; a call that leaves it as it is (set_primary_email
\* with the current primary, a refused set_primary_email, any other method)
\* sends none.
C13_PrimaryEmailChanged ==
    [][\A u \in Users :
          (Exists(u) /\ now' = now)
          => IF primary'[u] # primary[u]
             THEN /\ Cardinality(PrimaryChanges(sent', u)) = 1
                  /\ Count(sent', PrimaryEmailChanged(u, primary[u], primary'[u])) = 1
             ELSE PrimaryChanges(sent', u) = {}]_vars

\* a set_primary_email(require_confirmed=False) has moved the primary
\* e-mail to an address that is not confirmed, and said so once
C13_Witness ==
    /\ last.op = "set_primary_email" /\ ~last.require_confirmed
    /\ primary[last.user] = last.email
    /\ ~user_is_confirmed(primary, store, last.user)
    /\ Len(sent) = 1 /\ sent[1].signal = "primary_email_changed"
    /\ sent[1].email = last.email /\ sent[1].old # last.email

\* both callers have run confirm to its end with the key of row r, a key
\* that is still unexpired
BothConfirmed(r) ==
    /\ ~is_key_expired(r, now, period)
    /\ \A p \in Procs :
          procs[p].pc = "done" /\ procs[p].op = "confirm" /\ procs[p].key = r.key

\* C14 (as stated): when two confirm calls with the unexpired key of one
\* unconfirmed row run at once, neither fails, the row ends confirmed and
\* EmailConfirmed is sent once; the save of the call that comes second
\* finds the row confirmed and changes neither confirmed_at nor sends a
\* signal.
C14_Original ==
    [][/\ \A r \in store' :
            BothConfirmed(r)'
            => /\ \A p \in Procs : procs'[p].result = "ok"
               /\ r.confirmed_at # None
               /\ Count(sent', EmailConfirmed(r.user, r.email)) = 1
       /\ \A p \in Procs, r \in store :
            (/\ procs[p].pc = "confirm_write" /\ procs'[p].pc = "done"
             /\ r.user = procs[p].address.user /\ r.email = procs[p].address.email
             /\ r.confirmed_at # None)
            => (store' = store /\ sent' = sent)]_vars

\* C19 (as stated): when a confirm runs at once with a
\* reset_email_confirmation of the same row, a row that is confirmed holds
\* a key that some confirm call has presented: it is never confirmed under
\* the key the reset has just given it unless a confirm presented that key.
C19_Original ==
    \A r \in store :
        r.confirmed_at # None
        => \E p \in Procs :
              procs[p].op = "confirm" /\ procs[p].key = r.key

\* the exceptions a call can raise
Failures == {"IntegrityError", "DoesNotExist", "EmailConfirmationExpired",
             "EmailNotConfirmed", "EmailIsPrimary"}

\* C15: a call that raises one of the exceptions leaves the table (the set
\* of rows and every key, set_at and confirmed_at), the primary e-mail of
\* every account and the signals as they were: it sends none.
C15_AllOrNothing ==
    [][(now' = now /\ last'.result \in Failures)
       => (/\ store' = store
           /\ primary' = primary
           /\ sent' = <<>>)]_vars

\* an add_unconfirmed_email was refused for an e-mail the account already
\* holds as confirmed, and the row is still there, confirmed
C15_Witness ==
    /\ last.op = "add_unconfirmed_email" /\ last.result = "IntegrityError"
    /\ sent = <<>>
    /\ \E r \in by_email(store, last.user, last.email) : r.confirmed_at # None

\* the positions of the unconfirmed_email_created signals in q
Creations(q) == {i \in DOMAIN q : q[i].signal = "unconfirmed_email_created"}

\* C16: the step that creates account u leaves, with AUTO_ADD on, exactly
\* one row for u, a new one, for u's primary e-mail, unconfirmed, set now,
\* and sends UnconfirmedEmailCreated once and nothing else; with AUTO_ADD
\* off it adds no row and sends nothing.  A later save of the account (the
\* one set_primary_email makes) adds no row and sends no
\* UnconfirmedEmailCreated.
C16_AutoAdd ==
    [][/\ \A u \in Users :
            (~Exists(u) /\ Exists(u)')
            => IF autoAdd
               THEN /\ \E r \in store' \ store :
                         /\ email_address_set(store', u) = {r}
                         /\ store' = store \cup {r}
                         /\ r.email = primary'[u]
                         /\ r.confirmed_at = None /\ r.set_at = now
                    /\ sent' = <<UnconfirmedEmailCreated(u, primary'[u])>>
               ELSE store' = store /\ sent' = <<>>
       /\ OpStep({"set_primary_email"})
          => (store' = store /\ Creations(sent') = {})]_vars

\* with AUTO_ADD on, set_primary_email has saved the account with a primary
\* e-mail it holds no row for: the row made at creation is still the only one
C16_Witness ==
    /\ autoAdd
    /\ last.op = "set_primary_email" /\ last.result = "ok"
    /\ Len(sent) = 1 /\ sent[1].signal = "primary_email_changed"
    /\ by_email(store, last.user, primary[last.user]) = {}
    /\ Cardinality(email_address_set(store, last.user)) = 1

\* C17: in a sequential run a row that is confirmed after a step either was
\* confirmed before it, with the same confirmed_at, or is new and made by
\* add_confirmed_email (create_confirmed), or was unconfirmed and the step
\* is a confirm that presented the key the row held, unexpired, among the
\* rows the caller can see; no other call sets confirmed_at.
C17_ConfirmedOnlyByOwnKey ==
    [][\A r2 \in store' :
          r2.confirmed_at # None
          => LET old == by_email(store, r2.user, r2.email)
             IN  IF old = {}
                 THEN /\ OpStep({"add_confirmed_email"})
                      /\ last'.user = r2.user /\ last'.email = r2.email
                 ELSE \A r \in old :
                        IF r.confirmed_at # None
                        THEN r2.confirmed_at = r.confirmed_at
                        ELSE /\ OpStep(ConfirmOps)
                             /\ last'.key = r.key
                             /\ r \in Visible(store, last')
                             /\ Unexpired(r)
                             /\ r2 = [r EXCEPT !.confirmed_at = now]]_vars

\* with a period configured and two accounts holding a row each, a confirm
\* with a user argument has just confirmed that user's row through its key,
\* and the other account's row is still unconfirmed
C17_Witness ==
    /\ last.op = "confirm" /\ last.user # NoUser /\ last.result = "ok"
    /\ period # None
    /\ sent = <<EmailConfirmed(last.user, last.ret_email)>>
    /\ \E r \in store :
          r.user = last.user /\ r.key = last.key /\ r.confirmed_at = now
    /\ \E r \in store : r.user # last.user /\ r.confirmed_at = None

\* get_confirmation_key() and confirmed_at of account u both find a row
PrimaryReadable(u) ==
    /\ get_confirmation_key(primary, store, u, NoEmail).result = "ok"
    /\ user_confirmed_at(primary, store, u).result = "ok"

\* C18: with AUTO_ADD on, get_confirmation_key() and confirmed_at find the
\* row of the primary e-mail right after the account is created, and go on
\* finding it after every call that is not a set_primary_email with
\* require_confirmed = False; so they never raise DoesNotExist in a run
\* without such a call.
C18_PrimaryHasRecord ==
    [][\A u \in Users :
          autoAdd
          => /\ (~Exists(u) /\ Exists(u)') => PrimaryReadable(u)'
             /\ (/\ Exists(u) /\ PrimaryReadable(u)
                 /\ ~(OpStep({"set_primary_email"}) /\ last'.user = u
                       /\ ~last'.require_confirmed))
                => PrimaryReadable(u)']_vars

\* with AUTO_ADD on, the account has just removed an address that is not
\* its primary e-mail: the one row left is that of the primary e-mail,
\* confirmed
C18_Witness ==
    /\ autoAdd
    /\ last.op = "remove_email" /\ last.result = "ok"
    /\ PrimaryReadable(last.user)
    /\ user_is_confirmed(primary, store, last.user)
    /\ Cardinality(email_address_set(store, last.user)) = 1


====
